---- MODULE Spec2Model ----
(***************************************************************************)
(* Tunnel lifecycle supervisor of SSH-Tunnel: the tunnel Manager           *)
(* (package tunnel, internal/templates/manager.go lines 628-1005), its     *)
(* Tunnel records, the per-tunnel monitor goroutine and the external ssh   *)
(* processes they supervise (Spec); the Launch Policy buildSSHArgs         *)
(* (SpecArgs); the start, stop and status commands of cmd/cli/commands.go  *)
(* (SpecCli); the config Manager of package config (SpecConfig); and the   *)
(* configuration a Tunnel holds once launched (SpecSnapshot).              *)
(*                                                                         *)
(* Environment assumptions, stated once:                                   *)
(*  - the OS hands out a process id that no earlier process of this run    *)
(*    had (ids are not recycled within the horizon of the model);          *)
(*  - sync.RWMutex is writer-preferring: a caller blocked in Lock() keeps  *)
(*    later RLock() calls out;                                             *)
(*  - the kill issued by exec.CommandContext when the context is           *)
(*    cancelled has the same outcome as the explicit Kill of Stop, so it   *)
(*    is not a separate step.                                              *)
(***************************************************************************)
EXTENDS Integers, Sequences, FiniteSets, TLC

\* ---- bounds ----
MaxCalls == 3
MaxInst == 2
\* config Manager: calls made
MaxOps == 3

Names == {"t1", "t2"}
Callers == {"c1", "c2"}
\* names whose stored configuration is edited while the supervisor runs
CfgNames == {"t2"}

\* ---- Status (String() of the Status enumeration) ----
StatusStopped == "stopped"
StatusStarting == "starting"
StatusRunning == "running"
StatusStopping == "stopping"
StatusError == "error"

VARIABLES
  tunnels,   \* Manager.tunnels: name -> index of the Tunnel in heap, 0 = no entry
  heap,      \* every Tunnel object allocated so far (index = object identity)
  proc,      \* external process of each Tunnel: none, alive, exit0, exitErr, signaled
  mon,       \* monitor goroutine of each Tunnel: none, waiting, reaped, deferred, done
  configs,   \* names for which the config Manager has a stored configuration
  pc,        \* position of each caller inside the operation it runs
  op,        \* operation the caller last invoked
  arg,       \* tunnel name it was invoked with
  ret,       \* its result ("none" while running)
  ref,       \* local variable `tunnel` of the caller (heap index, 0 = nil)
  todo,      \* List: names of the range loop not yet visited
  conc,      \* history: callers whose Start overlapped this caller's Start
  pre,       \* history: heap size when Restart was invoked on a Running name, else 0
  calls,     \* number of operations invoked so far (drives the clock)
  cfg,       \* Launch Policy: the Config of the Tunnel whose arguments are built
  args,      \* Launch Policy: the argument list built, <<>> before
  cli,       \* command line: the ssh-tunnel command that runs or ran last
  store      \* config Manager: its Config objects, its map, its files, its last result

\* state outside the supervisor, which no step of the supervisor changes
extVars == <<cfg, args, cli, store>>
vars == <<tunnels, heap, proc, mon, configs, pc, op, arg, ret, ref, todo, conc, pre, calls,
          extVars>>
callerVars == <<pc, op, arg, ret, ref, todo, conc, pre, calls>>

Ids == 1..Len(heap)

\* time.Now(): the clock is read in units of invocations, so it moves with every call
now == calls + 1

\* ---- Manager.mu (sync.RWMutex), read off the callers' positions ----
WriterPcs == {"start_check", "start_spawn", "start_register", "stop_find", "stop_kill"}
MuWriter == {c \in Callers : pc[c] \in WriterPcs}
MuWaiting == {c \in Callers : pc[c] \in {"start_lock", "stop_lock"}}
MuReaders == {c \in Callers : pc[c] = "list_iter"}
\* variant: Lock() waits for the readers only, not for another writer
WLockFree_ReadersOnly == MuReaders = {}
WLockFree == MuWriter = {} /\ MuReaders = {}
\* variant: RLock() does not wait for the caller that holds the write lock
RLockFree_IgnoreWriter == MuWaiting = {}
RLockFree == MuWriter = {} /\ MuWaiting = {}

\* ---- Tunnel.mu: held across steps only by Stop ----
TLocked(id) == \E c \in Callers : pc[c] = "stop_kill" /\ ref[c] = id

\* variant: a lookup that misses falls back to the entry of t1
Lookup_Fallback(n) == IF tunnels[n] # 0 THEN tunnels[n] ELSE tunnels["t1"]
Lookup(n) == tunnels[n]

NewTunnel(n) ==
  [name |-> n, status |-> StatusStarting, pid |-> 0, startTime |-> 0,
   lastHealthCheck |-> 0, error |-> "none", cancelled |-> FALSE]

managerVars == <<tunnels, heap, proc, mon, configs, pc, op, arg, ret, ref, todo, conc, pre, calls>>

\* ---- Launch Policy: Tunnel.buildSSHArgs ----
\* the fields of Config that the Launch Policy reads, and the values tried for them
Configs ==
  [KeepAliveInterval : {0, 30}, KeepAliveCountMax : {3}, ConnectTimeout : {10},
   Compression : BOOLEAN, Ciphers : {"", "aes128-ctr"},
   PrivateKeyPath : {"/k/id_rsa"}, Port : {22, 2200},
   ReversePort : {2222, 8022}, SOCKSPort : {-1, 0, 1080},
   User : {"tunnel"}, IP : {"203.0.113.7"}]

DefaultConfig ==
  [KeepAliveInterval |-> 30, KeepAliveCountMax |-> 3, ConnectTimeout |-> 10,
   Compression |-> FALSE, Ciphers |-> "",
   PrivateKeyPath |-> "/k/id_rsa", Port |-> 22,
   ReversePort |-> 2222, SOCKSPort |-> 0,
   User |-> "tunnel", IP |-> "203.0.113.7"]

\* fmt.Sprintf("%d", n)
Sprintf_d(n) == ToString(n)

\* variant: -D is added for every non-zero port
WantsSOCKS_NonZero(c) == c.SOCKSPort # 0

\* if cfg.LocalServer.SOCKSPort > 0
WantsSOCKS(c) == c.SOCKSPort > 0

\* variant: the ciphers option is appended before the compression option
buildSSHArgs_CiphersFirst(c) ==
  <<"-N", "-T",
    "-o", "ServerAliveInterval=" \o Sprintf_d(c.KeepAliveInterval),
    "-o", "ServerAliveCountMax=" \o Sprintf_d(c.KeepAliveCountMax),
    "-o", "StrictHostKeyChecking=no",
    "-o", "UserKnownHostsFile=/dev/null",
    "-o", "ExitOnForwardFailure=yes",
    "-o", "ConnectTimeout=" \o Sprintf_d(c.ConnectTimeout)>>
  \o (IF c.Ciphers # "" THEN <<"-o", "Ciphers=" \o c.Ciphers>> ELSE <<>>)
  \o (IF c.Compression THEN <<"-o", "Compression=yes">> ELSE <<>>)
  \o <<"-i", c.PrivateKeyPath>>
  \o <<"-p", Sprintf_d(c.Port)>>
  \o <<"-R", Sprintf_d(c.ReversePort) \o ":localhost:22">>
  \o (IF WantsSOCKS(c) THEN <<"-D", Sprintf_d(c.SOCKSPort)>> ELSE <<>>)
  \o <<c.User \o "@" \o c.IP>>

buildSSHArgs(c) ==
  <<"-N", "-T",
    "-o", "ServerAliveInterval=" \o Sprintf_d(c.KeepAliveInterval),
    "-o", "ServerAliveCountMax=" \o Sprintf_d(c.KeepAliveCountMax),
    "-o", "StrictHostKeyChecking=no",
    "-o", "UserKnownHostsFile=/dev/null",
    "-o", "ExitOnForwardFailure=yes",
    "-o", "ConnectTimeout=" \o Sprintf_d(c.ConnectTimeout)>>
  \o (IF c.Compression THEN <<"-o", "Compression=yes">> ELSE <<>>)
  \o (IF c.Ciphers # "" THEN <<"-o", "Ciphers=" \o c.Ciphers>> ELSE <<>>)
  \o <<"-i", c.PrivateKeyPath>>
  \o <<"-p", Sprintf_d(c.Port)>>
  \o <<"-R", Sprintf_d(c.ReversePort) \o ":localhost:22">>
  \o (IF WantsSOCKS(c) THEN <<"-D", Sprintf_d(c.SOCKSPort)>> ELSE <<>>)
  \o <<c.User \o "@" \o c.IP>>

\* ---- config Manager (package config): a store that has nothing saved ----
NoResult == [op |-> "none", name |-> "none", err |-> "nil", val |-> 0, names |-> <<>>]

\* tunnels/<n>.yaml: <<>> no file, <<content>> a file; a write that failed may leave
\* a truncated file
NoFile == <<>>
TruncatedFile ==
  <<[tunnel_name |-> "", ip |-> "", port |-> 0, reverse_port |-> 0,
     private_key_path |-> "", created_at |-> 0, updated_at |-> 0]>>

\* m.activeConfig before any name is set
NoActive == ""

StoreEmpty ==
  [objs |-> <<>>,
   at |-> [n \in Names |-> 0],
   files |-> [n \in Names |-> NoFile],
   active |-> NoActive,
   marker |-> NoFile,
   setCalled |-> FALSE,
   held |-> [n \in Names |-> 0],
   launched |-> [n \in Names |-> <<>>],
   last |-> NoResult,
   saved |-> [n \in Names |-> <<>>],
   touched |-> [n \in Names |-> FALSE],
   ops |-> 0]

\* ---- command line (cmd/cli): no command has run yet ----
CliIdle ==
  [phase |-> "idle", cmd |-> "none", all |-> FALSE, listed |-> {}, rest |-> {},
   cur |-> "none", tried |-> <<>>, errors |-> {}, out |-> "none", shown |-> "none",
   started |-> {}]

\* NewManager(): an empty registry; no caller is inside an operation
ManagerInit ==
  /\ tunnels = [n \in Names |-> 0]
  /\ heap = <<>>
  /\ proc = <<>>
  /\ mon = <<>>
  /\ pc = [c \in Callers |-> "done"]
  /\ op = [c \in Callers |-> "none"]
  /\ arg = [c \in Callers |-> "t1"]
  /\ ret = [c \in Callers |-> "none"]
  /\ ref = [c \in Callers |-> 0]
  /\ todo = [c \in Callers |-> {}]
  /\ conc = [c \in Callers |-> {}]
  /\ pre = [c \in Callers |-> 0]
  /\ calls = 0

\* the supervisor runs with a configuration stored for every name; of the config
\* Manager it reads only which names are stored (configs)
Init ==
  /\ ManagerInit
  /\ configs = Names
  /\ cfg = DefaultConfig
  /\ args = <<>>
  /\ cli = CliIdle
  /\ store = StoreEmpty


\* ---- code conditions and field updates, one operator per place in the source ----

\* variant: only Starting blocks a Start
StartBlocked_OnlyStarting(status) == status = StatusStarting

\* Start refuses a name whose entry is Running or Starting
StartBlocked(status) == status \in {StatusRunning, StatusStarting}

\* variant: every name resolves to a configuration
HasConfig_Always(n) == n \in Names

\* configManager.GetConfig(tunnelName) returns no error
HasConfig(n) == n \in configs

\* variants: Error counts as stopped; Stopped does not
StopRefused_ErrorToo(status) == status \in {StatusStopped, StatusStopping, StatusError}
StopRefused_OnlyStopping(status) == status = StatusStopping

\* Stop refuses a record that is Stopped or Stopping
StopRefused(status) == status \in {StatusStopped, StatusStopping}

\* variant: the id of the previous process is handed out again
FreshPid_Reuse == IF Len(heap) > 1 THEN Len(heap) - 1 ELSE Len(heap)

\* process id handed out by the OS for the next spawn
FreshPid == Len(heap)

\* variant: StartTime is not recorded
Launched_NoStartTime(t, p, clock) ==
  [t EXCEPT !.pid = p, !.status = StatusRunning, !.error = "none"]

\* variant: t.Process is not assigned
Launched_NoProcess(t, p, clock) ==
  [t EXCEPT !.status = StatusRunning, !.startTime = clock, !.error = "none"]

\* Tunnel.start after cmd.Start() succeeded
Launched(t, p, clock) ==
  [t EXCEPT !.pid = p, !.status = StatusRunning, !.startTime = clock, !.error = "none"]

\* Tunnel.start after cmd.Start() failed (Manager.Start then calls cancel())
LaunchFailed(t) ==
  [t EXCEPT !.status = StatusError, !.error = "failed_to_start", !.cancelled = TRUE]

\* variant: Start goes on to register the record whatever tunnel.start() returned
AfterSpawn_AlwaysRegister(ok) == "start_register"

\* Manager.Start after tunnel.start(): register on success, return the error otherwise
AfterSpawn(ok) == IF ok THEN "start_register" ELSE "done"

\* m.tunnels[tunnelName] = tunnel
Register(reg, n, id) == [reg EXCEPT ![n] = id]

\* variant: the entry is left in the map
Unregister_Keep(reg, n) == reg

\* variant: the whole map is cleared
Unregister_All(reg, n) == [m \in DOMAIN reg |-> 0]

\* delete(m.tunnels, tunnelName)
Unregister(reg, n) == [reg EXCEPT ![n] = 0]

\* err returned by cmd.Wait(): nil only for exit status 0
WaitErr(p) == p \in {"exitErr", "signaled"}

\* ProcessState.Exited(): true for a normal exit, false for a death by signal
Exited(p) == p \in {"exit0", "exitErr"}

\* variant: the context is not consulted
MonitorOutcome_NoCtxCheck(t, err) ==
  IF err THEN [t EXCEPT !.status = StatusError, !.error = "exited_unexpectedly"] ELSE t

\* monitor, first critical section
MonitorOutcome(t, err) ==
  IF err /\ ~t.cancelled
    THEN [t EXCEPT !.status = StatusError, !.error = "exited_unexpectedly"]
    ELSE IF t.cancelled THEN [t EXCEPT !.status = StatusStopped] ELSE t

\* variant: the deferred function sets Stopped whatever the status
MonitorDeferredFn_Always(t) == [t EXCEPT !.status = StatusStopped]

\* monitor, deferred function
MonitorDeferredFn(t) ==
  IF t.status = StatusRunning THEN [t EXCEPT !.status = StatusStopped] ELSE t

\* outcomes of Process.Kill() on a process in state p: the process dies, or the
\* kill fails and changes nothing (the usual failure: the process had already ended)
KillOutcomes(p) == IF p = "alive" THEN {"signaled", "alive"} ELSE {p}

\* variant: an absent name is reported as an error
Projection_AbsentIsError(n) ==
  IF Lookup(n) = 0
    THEN [name |-> n, status |-> StatusError, startTime |-> 0, lastHealthCheck |-> 0,
          uptime |-> 0, pid |-> 0, error |-> "not_found"]
    ELSE LET t == heap[Lookup(n)] IN
         [name |-> n, status |-> t.status, startTime |-> t.startTime,
          lastHealthCheck |-> t.lastHealthCheck, uptime |-> now - t.startTime,
          pid |-> t.pid, error |-> t.error]

\* the TunnelStatus GetStatus builds for name n
Projection(n) ==
  IF Lookup(n) = 0
    THEN [name |-> n, status |-> StatusStopped, startTime |-> 0, lastHealthCheck |-> 0,
          uptime |-> 0, pid |-> 0, error |-> "none"]
    ELSE LET t == heap[Lookup(n)] IN
         [name |-> n, status |-> t.status, startTime |-> t.startTime,
          lastHealthCheck |-> t.lastHealthCheck, uptime |-> now - t.startTime,
          pid |-> t.pid, error |-> t.error]

\* variant: Restart returns when its Stop step has finished
AfterStop_Return(c) == "done"

\* where a Stop that has finished goes on: Restart continues, Stop returns
AfterStop(c) == IF op[c] = "Restart" THEN "restart_sleep" ELSE "done"

\* Restart logs the error of its Stop step and forgets it
StopResult(c, r) == IF op[c] = "Restart" THEN "none" ELSE r

\* ---- callers: invocation ----
\* the callers are interchangeable: the first call of a run is c1's
CanCall(c) == calls < MaxCalls /\ (calls = 0 => c = "c1")

\* callers inside Start (or the Start step of Restart) when c invokes Start
Overlap(c, o) ==
  IF o = "Start"
    THEN {d \in Callers \ {c} : pc[d] \in {"start_lock", "start_check", "start_spawn", "start_register"}}
    ELSE {}

Enter(c, o, n, p, td) ==
  /\ pc[c] = "done"
  /\ CanCall(c)
  /\ pc' = [pc EXCEPT ![c] = p]
  /\ op' = [op EXCEPT ![c] = o]
  /\ arg' = [arg EXCEPT ![c] = n]
  /\ ret' = [ret EXCEPT ![c] = "none"]
  /\ ref' = [ref EXCEPT ![c] = 0]
  /\ todo' = [todo EXCEPT ![c] = td]
  /\ conc' = [d \in Callers |->
                IF d = c THEN Overlap(c, o)
                ELSE IF d \in Overlap(c, o) THEN conc[d] \cup {c} ELSE conc[d]]
  /\ pre' = [pre EXCEPT ![c] =
                IF o = "Restart" /\ Lookup(n) # 0 /\ heap[Lookup(n)].status = StatusRunning
                  THEN Len(heap) ELSE 0]
  /\ calls' = calls + 1
  /\ UNCHANGED <<tunnels, heap, proc, mon, configs>>

Invoke(c, o, n, p, td) ==
  /\ Enter(c, o, n, p, td)
  /\ UNCHANGED extVars

CallStart(c, n) ==
  /\ Len(heap) < MaxInst
  /\ Invoke(c, "Start", n, "start_lock", {})

CallStop(c, n) == Invoke(c, "Stop", n, "stop_lock", {})

CallRestart(c, n) ==
  /\ Len(heap) < MaxInst
  /\ Invoke(c, "Restart", n, "stop_lock", {})

\* m.mu.Lock() returns
AcquireLock(c) ==
  /\ pc[c] \in {"start_lock", "stop_lock"}
  /\ WLockFree
  /\ pc' = [pc EXCEPT ![c] = IF pc[c] = "start_lock" THEN "start_check" ELSE "stop_find"]
  /\ UNCHANGED <<tunnels, heap, proc, mon, configs, op, arg, ret, ref, todo, conc, pre, calls>>
  /\ UNCHANGED extVars

\* ---- Manager.Start ----
StartCheck(c) ==
  /\ pc[c] = "start_check"
  /\ LET n == arg[c]
         id == Lookup(n) IN
     IF id # 0 /\ StartBlocked(heap[id].status)
       THEN /\ ret' = [ret EXCEPT ![c] = "already_active"]
            /\ pc' = [pc EXCEPT ![c] = "done"]
            /\ UNCHANGED <<heap, proc, mon, ref>>
       ELSE IF ~HasConfig(n)
         THEN /\ ret' = [ret EXCEPT ![c] = "config_not_found"]
              /\ pc' = [pc EXCEPT ![c] = "done"]
              /\ UNCHANGED <<heap, proc, mon, ref>>
         ELSE /\ Len(heap) < MaxInst
              /\ heap' = Append(heap, NewTunnel(n))
              /\ proc' = Append(proc, "none")
              /\ mon' = Append(mon, "none")
              /\ ref' = [ref EXCEPT ![c] = Len(heap) + 1]
              /\ pc' = [pc EXCEPT ![c] = "start_spawn"]
              /\ UNCHANGED ret
  /\ UNCHANGED <<tunnels, configs, op, arg, todo, conc, pre, calls>>
  /\ UNCHANGED extVars

StartSpawn(c, ok) ==
  /\ pc[c] = "start_spawn"
  /\ LET id == ref[c] IN
     IF ok
       THEN /\ heap' = [heap EXCEPT ![id] = Launched(heap[id], FreshPid, now)]
            /\ proc' = [proc EXCEPT ![id] = "alive"]
            /\ mon' = [mon EXCEPT ![id] = "waiting"]
            /\ UNCHANGED ret
       ELSE /\ heap' = [heap EXCEPT ![id] = LaunchFailed(heap[id])]
            /\ ret' = [ret EXCEPT ![c] = "failed_to_start"]
            /\ UNCHANGED <<proc, mon>>
  /\ pc' = [pc EXCEPT ![c] = AfterSpawn(ok)]
  /\ UNCHANGED <<tunnels, configs, op, arg, ref, todo, conc, pre, calls>>
  /\ UNCHANGED extVars

StartRegister(c) ==
  /\ pc[c] = "start_register"
  /\ tunnels' = Register(tunnels, arg[c], ref[c])
  /\ ret' = [ret EXCEPT ![c] = "ok"]
  /\ pc' = [pc EXCEPT ![c] = "done"]
  /\ UNCHANGED <<heap, proc, mon, configs, op, arg, ref, todo, conc, pre, calls>>
  /\ UNCHANGED extVars

\* ---- Manager.Stop ----
StopFind(c) ==
  /\ pc[c] = "stop_find"
  /\ LET id == Lookup(arg[c]) IN
     IF id = 0
       THEN /\ ret' = [ret EXCEPT ![c] = StopResult(c, "not_found")]
            /\ pc' = [pc EXCEPT ![c] = AfterStop(c)]
            /\ UNCHANGED <<heap, ref>>
       ELSE IF StopRefused(heap[id].status)
         THEN /\ ret' = [ret EXCEPT ![c] = StopResult(c, "already_stopped")]
              /\ pc' = [pc EXCEPT ![c] = AfterStop(c)]
              /\ UNCHANGED <<heap, ref>>
         ELSE /\ heap' = [heap EXCEPT ![id].status = StatusStopping, ![id].cancelled = TRUE]
              /\ ref' = [ref EXCEPT ![c] = id]
              /\ pc' = [pc EXCEPT ![c] = "stop_kill"]
              /\ UNCHANGED ret
  /\ UNCHANGED <<tunnels, proc, mon, configs, op, arg, todo, conc, pre, calls>>
  /\ UNCHANGED extVars

StopKill(c) ==
  /\ pc[c] = "stop_kill"
  /\ LET id == ref[c] IN
     /\ \E p \in (IF heap[id].pid # 0 THEN KillOutcomes(proc[id]) ELSE {proc[id]}) :
          proc' = [proc EXCEPT ![id] = p]
     /\ heap' = [heap EXCEPT ![id].status = StatusStopped]
  /\ tunnels' = Unregister(tunnels, arg[c])
  /\ ret' = [ret EXCEPT ![c] = StopResult(c, "ok")]
  /\ pc' = [pc EXCEPT ![c] = AfterStop(c)]
  /\ ref' = [ref EXCEPT ![c] = 0]
  /\ UNCHANGED <<mon, configs, op, arg, todo, conc, pre, calls>>
  /\ UNCHANGED extVars

\* ---- Manager.Restart: time.Sleep, then Start ----
RestartSleep(c) ==
  /\ pc[c] = "restart_sleep"
  /\ pc' = [pc EXCEPT ![c] = "start_lock"]
  /\ UNCHANGED <<tunnels, heap, proc, mon, configs, op, arg, ret, ref, todo, conc, pre, calls>>
  /\ UNCHANGED extVars

\* ---- Manager.GetStatus (one step: both read locks are taken and released in it) ----
GetStatusBody(c, n) ==
  /\ pc[c] = "done"
  /\ RLockFree
  /\ op' = [op EXCEPT ![c] = "GetStatus"]
  /\ arg' = [arg EXCEPT ![c] = n]
  /\ ret' = [ret EXCEPT ![c] = "ok"]
  /\ ref' = [ref EXCEPT ![c] = 0]
  /\ conc' = [conc EXCEPT ![c] = {}]
  /\ pre' = [pre EXCEPT ![c] = 0]
  /\ CanCall(c)
  /\ calls' = calls + 1
  /\ UNCHANGED <<tunnels, heap, proc, mon, configs, pc, todo>>

GetStatus(c, n) ==
  /\ GetStatusBody(c, n)
  /\ UNCHANGED extVars

\* ---- Manager.List ----
ListBegin(c) ==
  /\ RLockFree
  /\ Invoke(c, "List", "t1", "list_iter", {n \in Names : tunnels[n] # 0})

\* one turn of the range loop: the nested GetStatus takes the read lock again and
\* returns Projection(n) of the state it runs in
ListIter(c, n) ==
  /\ pc[c] = "list_iter"
  /\ n \in todo[c]
  /\ RLockFree
  /\ todo' = [todo EXCEPT ![c] = @ \ {n}]
  /\ UNCHANGED <<tunnels, heap, proc, mon, configs, pc, op, arg, ret, ref, conc, pre, calls>>
  /\ UNCHANGED extVars

ListEnd(c) ==
  /\ pc[c] = "list_iter"
  /\ todo[c] = {}
  /\ pc' = [pc EXCEPT ![c] = "done"]
  /\ ret' = [ret EXCEPT ![c] = "ok"]
  /\ UNCHANGED <<tunnels, heap, proc, mon, configs, op, arg, ref, todo, conc, pre, calls>>
  /\ UNCHANGED extVars

\* ---- Manager.HealthCheck ----
CallHealthCheck(c, n) == Invoke(c, "HealthCheck", n, "hc_lookup", {})

\* the lookup under the read lock of the Manager
HCLookup(c) ==
  /\ pc[c] = "hc_lookup"
  /\ RLockFree
  /\ IF Lookup(arg[c]) = 0
       THEN /\ ret' = [ret EXCEPT ![c] = "not_found"]
            /\ pc' = [pc EXCEPT ![c] = "done"]
            /\ UNCHANGED ref
       ELSE /\ ref' = [ref EXCEPT ![c] = Lookup(arg[c])]
            /\ pc' = [pc EXCEPT ![c] = "hc_check"]
            /\ UNCHANGED ret
  /\ UNCHANGED <<tunnels, heap, proc, mon, configs, op, arg, todo, conc, pre, calls>>
  /\ UNCHANGED extVars

\* variant: the status of the record is not looked at
HCResult_NoStatusCheck(t, stateKnown, p) ==
  IF t.pid = 0 THEN "process_not_found"
  ELSE IF stateKnown /\ Exited(p) THEN "process_exited"
  ELSE "ok"

\* the record after the body of HealthCheck, and what HealthCheck returns;
\* stateKnown: cmd.ProcessState has been set by Wait
HCResult(t, stateKnown, p) ==
  IF t.status # StatusRunning THEN "not_running"
  ELSE IF t.pid = 0 THEN "process_not_found"
  ELSE IF stateKnown /\ Exited(p) THEN "process_exited"
  ELSE "ok"

\* variant: the status is set to Error without a cause
HCRecord_NoCause(t, r, clock) ==
  IF r \in {"process_not_found", "process_exited"}
    THEN [t EXCEPT !.status = StatusError]
    ELSE IF r = "ok" THEN [t EXCEPT !.lastHealthCheck = clock] ELSE t

HCRecord(t, r, clock) ==
  IF r \in {"process_not_found", "process_exited"}
    THEN [t EXCEPT !.status = StatusError, !.error = r]
    ELSE IF r = "ok" THEN [t EXCEPT !.lastHealthCheck = clock] ELSE t

HCCheck(c) ==
  /\ pc[c] = "hc_check"
  /\ ~TLocked(ref[c])
  /\ LET id == ref[c]
         r == HCResult(heap[id], mon[id] \notin {"none", "waiting"}, proc[id]) IN
     /\ heap' = [heap EXCEPT ![id] = HCRecord(heap[id], r, now)]
     /\ ret' = [ret EXCEPT ![c] = r]
  /\ pc' = [pc EXCEPT ![c] = "done"]
  /\ ref' = [ref EXCEPT ![c] = 0]
  /\ UNCHANGED <<tunnels, proc, mon, configs, op, arg, todo, conc, pre, calls>>
  /\ UNCHANGED extVars

\* ---- the external process ends by itself, with exit status 0 or non-zero ----
\* (a process killed by Stop is "signaled"; a signal sent by a third party is not
\* among the inputs)
ExitKinds == {"exit0", "exitErr"}

ProcExit(id, how) ==
  /\ id \in Ids
  /\ proc[id] = "alive"
  /\ how \in ExitKinds
  /\ proc' = [proc EXCEPT ![id] = how]
  /\ UNCHANGED <<tunnels, heap, mon, configs, callerVars>>
  /\ UNCHANGED extVars

\* ---- Tunnel.monitor ----
\* variant: the monitor writes to the record its name has in the registry
MonitorTarget_ByName(id) ==
  IF tunnels[heap[id].name] # 0 THEN tunnels[heap[id].name] ELSE id

\* the record the monitor of record id writes to: its receiver t
MonitorTarget(id) == id

\* t.Process.Wait() returns (and has set cmd.ProcessState)
MonitorWake(id) ==
  /\ id \in Ids
  /\ mon[id] = "waiting"
  /\ proc[id] # "alive"
  /\ mon' = [mon EXCEPT ![id] = "reaped"]
  /\ UNCHANGED <<tunnels, heap, proc, configs, callerVars>>
  /\ UNCHANGED extVars

MonitorLocked(id) ==
  /\ id \in Ids
  /\ mon[id] = "reaped"
  /\ ~TLocked(id)
  /\ LET t == MonitorTarget(id) IN
     heap' = [heap EXCEPT ![t] = MonitorOutcome(heap[t], WaitErr(proc[id]))]
  /\ mon' = [mon EXCEPT ![id] = "deferred"]
  /\ UNCHANGED <<tunnels, proc, configs, callerVars>>
  /\ UNCHANGED extVars

MonitorDeferred(id) ==
  /\ id \in Ids
  /\ mon[id] = "deferred"
  /\ ~TLocked(id)
  /\ LET t == MonitorTarget(id) IN
     heap' = [heap EXCEPT ![t] = MonitorDeferredFn(heap[t])]
  /\ mon' = [mon EXCEPT ![id] = "done"]
  /\ UNCHANGED <<tunnels, proc, configs, callerVars>>
  /\ UNCHANGED extVars

\* ---- config Manager, as far as Start reads it ----
SaveConfig(n) ==
  /\ n \notin configs
  /\ calls < MaxCalls
  /\ calls' = calls + 1
  /\ configs' = configs \cup {n}
  /\ UNCHANGED <<tunnels, heap, proc, mon, pc, op, arg, ret, ref, todo, conc, pre>>
  /\ UNCHANGED extVars

DeleteConfig(n) ==
  /\ n \in configs
  /\ calls < MaxCalls
  /\ calls' = calls + 1
  /\ configs' = configs \ {n}
  /\ UNCHANGED <<tunnels, heap, proc, mon, pc, op, arg, ret, ref, todo, conc, pre>>
  /\ UNCHANGED extVars

CallerStep(c) ==
  \/ \E n \in Names : CallStart(c, n)
  \/ \E n \in Names : CallStop(c, n)
  \/ \E n \in Names : CallRestart(c, n)
  \/ AcquireLock(c)
  \/ StartCheck(c)
  \/ \E ok \in BOOLEAN : StartSpawn(c, ok)
  \/ StartRegister(c)
  \/ StopFind(c)
  \/ StopKill(c)
  \/ RestartSleep(c)
  \/ \E n \in Names : GetStatus(c, n)
  \/ ListBegin(c)
  \/ \E n \in Names : ListIter(c, n)
  \/ ListEnd(c)
  \/ \E n \in Names : CallHealthCheck(c, n)
  \/ HCLookup(c)
  \/ HCCheck(c)

MonitorStep(id) == MonitorWake(id) \/ MonitorLocked(id) \/ MonitorDeferred(id)

Next ==
  \/ \E c \in Callers : CallerStep(c)
  \/ \E id \in 1..MaxInst : MonitorStep(id)
  \/ \E id \in 1..MaxInst, how \in ExitKinds : ProcExit(id, how)
  \/ \E n \in CfgNames : SaveConfig(n)
  \/ \E n \in CfgNames : DeleteConfig(n)

Spec == Init /\ [][Next]_vars

\* ---- the Launch Policy applied to a configuration ----
ArgsInit ==
  /\ ManagerInit
  /\ configs = Names
  /\ cfg \in Configs
  /\ args = <<>>
  /\ cli = CliIdle
  /\ store = StoreEmpty

\* args := t.buildSSHArgs()
BuildArgs ==
  /\ args = <<>>
  /\ args' = buildSSHArgs(cfg)
  /\ UNCHANGED <<cfg, cli, store, managerVars>>

ArgsNext == BuildArgs

SpecArgs == ArgsInit /\ [][ArgsNext]_vars

\* ---- the ssh-tunnel commands start, stop and status (cmd/cli/commands.go) ----
\* Each command runs in a process of its own, on one goroutine (caller c1):
\* it makes a Manager with tunnel.NewManager(), works through the names and
\* returns; the ssh processes it spawned outlive it, its goroutines do not.
CliCommands == {"start", "stop", "status"}

CliInit ==
  /\ ManagerInit
  /\ configs = Names
  /\ cfg = DefaultConfig
  /\ args = <<>>
  /\ cli = CliIdle
  /\ store = StoreEmpty

\* variant: the loop stops at the first name that fails
AfterFailure_Abort(rest) == {}

\* the names still to visit after a name has failed: the loop goes on
AfterFailure(rest) == rest

\* RunE up to the loop: tunnel.NewManager(), then the names to visit
\* (all or no argument: configManager.ListConfigs(); else the one name given)
CliRun(cmd, all, n) ==
  /\ cli.phase # "running"
  /\ calls < MaxCalls
  /\ cmd \in CliCommands
  /\ LET names == IF all THEN configs ELSE {n} IN
     cli' = [cli EXCEPT !.phase = "running", !.cmd = cmd, !.all = all,
                        !.listed = names, !.rest = names, !.cur = "none",
                        !.tried = <<>>, !.errors = {}, !.out = "none", !.shown = "none"]
  /\ tunnels' = [m \in Names |-> 0]
  /\ UNCHANGED <<heap, proc, mon, configs, callerVars, cfg, args, store>>

\* one turn of the loop (range over a map: any order): the call for name n
CliNext(n) ==
  /\ cli.phase = "running"
  /\ cli.cur = "none"
  /\ n \in cli.rest
  /\ CASE cli.cmd = "start" ->
            /\ Len(heap) < MaxInst
            /\ Enter("c1", "Start", n, "start_lock", {})
            /\ cli' = [cli EXCEPT !.cur = n, !.rest = @ \ {n}, !.tried = Append(@, n)]
       [] cli.cmd = "stop" ->
            /\ Enter("c1", "Stop", n, "stop_lock", {})
            /\ cli' = [cli EXCEPT !.cur = n, !.rest = @ \ {n}, !.tried = Append(@, n)]
       [] cli.cmd = "status" ->
            /\ GetStatusBody("c1", n)
            /\ cli' = [cli EXCEPT !.cur = n, !.rest = @ \ {n}, !.tried = Append(@, n),
                                   !.shown = Projection(n).status]
  /\ UNCHANGED <<cfg, args, store>>

\* the call has returned: a failure is appended to errors
CliCollect ==
  /\ cli.phase = "running"
  /\ cli.cur # "none"
  /\ pc["c1"] = "done"
  /\ cli' = IF ret["c1"] # "ok"
              THEN [cli EXCEPT !.cur = "none", !.errors = @ \cup {<<cli.cur, ret["c1"]>>},
                               !.rest = AfterFailure(@)]
              ELSE [cli EXCEPT !.cur = "none"]
  /\ UNCHANGED <<managerVars, cfg, args, store>>

\* RunE returns and the process ends, its monitor goroutines with it
CliReturn ==
  /\ cli.phase = "running"
  /\ cli.cur = "none"
  /\ cli.rest = {}
  /\ LET out == IF cli.errors = {} THEN "ok" ELSE "error" IN
     cli' = [cli EXCEPT !.phase = "returned", !.out = out,
                        !.started = IF cli.cmd = "start" /\ out = "ok" /\ ~cli.all
                                      THEN @ \cup cli.listed ELSE @]
  /\ mon' = [i \in DOMAIN mon |-> "none"]
  /\ UNCHANGED <<tunnels, heap, proc, configs, callerVars, cfg, args, store>>

\* between two commands a configuration is added or removed (ssh-tunnel setup)
CliConfigEdit(n) ==
  /\ cli.phase # "running"
  /\ SaveConfig(n) \/ DeleteConfig(n)

\* Stop never gets as far as its kill here, so that step is not among these
CliManagerStep ==
  \/ AcquireLock("c1")
  \/ StartCheck("c1")
  \/ \E ok \in BOOLEAN : StartSpawn("c1", ok)
  \/ StartRegister("c1")
  \/ StopFind("c1")

CliNextState ==
  \/ \E cmd \in CliCommands, all \in BOOLEAN, n \in Names : CliRun(cmd, all, n)
  \/ \E n \in Names : CliNext(n)
  \/ CliCollect
  \/ CliReturn
  \/ CliManagerStep
  \/ \E n \in CfgNames : CliConfigEdit(n)
  \/ \E id \in 1..MaxInst : MonitorStep(id)
  \/ \E id \in 1..MaxInst, how \in ExitKinds : ProcExit(id, how)

SpecCli == CliInit /\ [][CliNextState]_vars

\* ---- the config Manager (package config) and the code that calls it ----
\* The store keeps the *Config it is given, and GetConfig hands the same pointer
\* out: objs is the heap of Config objects, at[n] the object m.configs[n] points
\* to (0: no key n), files[n] the content of tunnels/<n>.yaml.
\* History: saved[n] and touched[n] remember the fields the object had when it
\* was last saved under n, and whether the caller has written to it since.
Ports == {22, 2200}

ObjIds == 1..Len(store.objs)
\* the caller builds as many Config objects as there are names
ObjSlots == 1..Cardinality(Names)

\* the fields a caller reads back
Fields(o) ==
  [TunnelName |-> o.TunnelName, IP |-> o.IP, Port |-> o.Port,
   ReversePort |-> o.ReversePort, PrivateKeyPath |-> o.PrivateKeyPath]

\* yaml.Marshal(config): the fields under their yaml keys
Marshal(o) ==
  [tunnel_name |-> o.TunnelName, ip |-> o.IP, port |-> o.Port,
   reverse_port |-> o.ReversePort, private_key_path |-> o.PrivateKeyPath,
   created_at |-> o.CreatedAt, updated_at |-> o.UpdatedAt]

\* time.Now() of the config Manager
StoreNow == store.ops + 1

\* variant: every name counts as a key of the map
Exists_Always(n) == TRUE

\* _, exists := m.configs[name]
Exists(n) == n \in Names /\ store.at[n] # 0

\* the keys of m.configs
Keys == {n \in Names : store.at[n] # 0}

\* the lists that hold every element of S once, in any order
Orderings(S) ==
  {q \in [1..Cardinality(S) -> S] : \A i, j \in 1..Cardinality(S) : q[i] = q[j] => i = j}

\* variant: the slice is made with length len(m.configs), then appended to
RangeAppend_AfterLen(S) ==
  {[i \in 1..Cardinality(S) |-> ""] \o q : q \in Orderings(S)}

\* names := make([]string, 0, len); for name := range m.configs { append }
RangeAppend(S) == Orderings(S)

\* variant: the key is kept
DeleteKey_Keep(at, n) == at

\* delete(m.configs, name)
DeleteKey(at, n) == [at EXCEPT ![n] = 0]

\* variant: the path of the marker is written into it
MarkerOf_Path(n) == <<"active">>

\* the content of the file `active` after os.WriteFile(activeConfigFile, []byte(name))
MarkerOf(n) == <<n>>

\* a marker that a failed write has left empty
TruncatedMarker == <<"">>

CfgInit ==
  /\ ManagerInit
  /\ configs = {}
  /\ cfg = DefaultConfig
  /\ args = <<>>
  /\ cli = CliIdle
  /\ store = StoreEmpty

\* the caller builds a Config: &Config{TunnelName: n, ...}
NewConfigObject(n, port) ==
  /\ Len(store.objs) < Cardinality(ObjSlots)
  /\ store' = [store EXCEPT !.objs = Append(@,
                  [TunnelName |-> n, IP |-> "203.0.113.7", Port |-> port,
                   ReversePort |-> 2222, PrivateKeyPath |-> "/k/id_rsa",
                   CreatedAt |-> 0, UpdatedAt |-> 0])]
  /\ UNCHANGED <<managerVars, cfg, args, cli>>

\* the caller writes to a Config it holds (one it built or one GetConfig returned)
EditConfigObject(id, n, port) ==
  /\ id \in ObjIds
  /\ store.objs[id].TunnelName # n \/ store.objs[id].Port # port
  /\ store' = [store EXCEPT !.objs[id].TunnelName = n, !.objs[id].Port = port,
                             !.touched = [m \in Names |-> @[m] \/ store.at[m] = id]]
  /\ UNCHANGED <<managerVars, cfg, args, cli>>

\* the timestamps SaveConfig sets on the object it is given
Stamped(o, clock) ==
  [o EXCEPT !.UpdatedAt = clock, !.CreatedAt = IF @ = 0 THEN clock ELSE @]

\* variant: the object is stored under the key t1 whatever its name
SaveKey_Fixed(o) == "t1"

\* the key SaveConfig stores under: config.TunnelName
SaveKey(o) == o.TunnelName

\* SaveConfig(config); dirOk, writeOk: os.MkdirAll and os.WriteFile succeed
CfgSaveConfig(id, dirOk, writeOk) ==
  /\ store.ops < MaxOps
  /\ id \in ObjIds
  /\ LET o == Stamped(store.objs[id], StoreNow)
         n == SaveKey(o)
         f == o.TunnelName
         res(e) == [op |-> "SaveConfig", name |-> f, err |-> e, val |-> id, names |-> <<>>]
     IN IF ~dirOk
          THEN /\ store' = [store EXCEPT !.objs[id] = o, !.last = res("io"), !.ops = @ + 1]
               /\ UNCHANGED configs
          ELSE IF ~writeOk
            THEN /\ \E c \in {store.files[f], TruncatedFile} :
                      store' = [store EXCEPT !.objs[id] = o, !.files[f] = c,
                                             !.last = res("io"), !.ops = @ + 1]
                 /\ UNCHANGED configs
            ELSE /\ store' = [store EXCEPT !.objs[id] = o, !.files[f] = <<Marshal(o)>>,
                                           !.at[n] = id,
                                           !.saved[n] = <<Fields(o)>>, !.touched[n] = FALSE,
                                           !.last = res("nil"), !.ops = @ + 1]
                 /\ configs' = configs \cup {n}
  /\ UNCHANGED <<tunnels, heap, proc, mon, callerVars, cfg, args, cli>>

\* GetConfig(name)
CfgGetConfig(n) ==
  /\ store.ops < MaxOps
  /\ store' = [store EXCEPT
                  !.last = IF ~Exists(n)
                             THEN [op |-> "GetConfig", name |-> n, err |-> "not_found",
                                   val |-> 0, names |-> <<>>]
                             ELSE [op |-> "GetConfig", name |-> n, err |-> "nil",
                                   val |-> store.at[n], names |-> <<>>],
                  !.ops = @ + 1]
  /\ UNCHANGED <<managerVars, cfg, args, cli>>

\* ListConfigs()
CfgListConfigs ==
  /\ store.ops < MaxOps
  /\ \E names \in RangeAppend(Keys) :
     store' = [store EXCEPT
                  !.last = [op |-> "ListConfigs", name |-> "none", err |-> "nil", val |-> 0,
                            names |-> names],
                  !.ops = @ + 1]
  /\ UNCHANGED <<managerVars, cfg, args, cli>>

\* DeleteConfig(name); rmOk: os.Remove succeeds or finds no file
CfgDeleteConfig(n, rmOk) ==
  /\ store.ops < MaxOps
  /\ LET res(e) == [op |-> "DeleteConfig", name |-> n, err |-> e, val |-> 0, names |-> <<>>]
     IN IF ~Exists(n)
          THEN /\ store' = [store EXCEPT !.last = res("not_found"), !.ops = @ + 1]
               /\ UNCHANGED configs
          ELSE IF ~rmOk
            THEN /\ store' = [store EXCEPT !.last = res("io"), !.ops = @ + 1]
                 /\ UNCHANGED configs
            ELSE /\ store' = [store EXCEPT !.files[n] = NoFile, !.at = DeleteKey(@, n),
                                           !.saved[n] = <<>>, !.touched[n] = FALSE,
                                           !.last = res("nil"), !.ops = @ + 1]
                 /\ configs' = configs \ {n}
  /\ UNCHANGED <<tunnels, heap, proc, mon, callerVars, cfg, args, cli>>

\* SetActiveConfig(name); writeOk: os.WriteFile of the marker succeeds
CfgSetActiveConfig(n, writeOk) ==
  /\ store.ops < MaxOps
  /\ LET res(e) == [op |-> "SetActiveConfig", name |-> n, err |-> e, val |-> 0, names |-> <<>>]
     IN IF ~Exists(n)
          THEN store' = [store EXCEPT !.last = res("not_found"), !.ops = @ + 1]
          ELSE IF writeOk
            THEN store' = [store EXCEPT !.active = n, !.marker = MarkerOf(n),
                                        !.setCalled = TRUE,
                                        !.last = res("nil"), !.ops = @ + 1]
            ELSE \E c \in {store.marker, TruncatedMarker} :
                   store' = [store EXCEPT !.active = n, !.marker = c,
                                          !.setCalled = TRUE,
                                          !.last = res("io"), !.ops = @ + 1]
  /\ UNCHANGED <<managerVars, cfg, args, cli>>

\* GetActiveConfig(); readOk: os.ReadFile of the marker does not fail for a reason
\* other than the file being absent
CfgGetActiveConfig(readOk) ==
  /\ store.ops < MaxOps
  /\ LET res(e, v) == [op |-> "GetActiveConfig", name |-> "none", err |-> e, val |-> v,
                       names |-> <<>>]
     IN IF store.active = NoActive /\ store.marker = NoFile
          THEN store' = [store EXCEPT !.last = res("no_active", 0), !.ops = @ + 1]
          ELSE IF store.active = NoActive /\ ~readOk
            THEN store' = [store EXCEPT !.last = res("io", 0), !.ops = @ + 1]
            ELSE LET a == IF store.active = NoActive THEN store.marker[1] ELSE store.active
                 IN IF ~Exists(a)
                      THEN store' = [store EXCEPT !.active = a,
                                                  !.last = res("active_not_found", 0),
                                                  !.ops = @ + 1]
                      ELSE store' = [store EXCEPT !.active = a,
                                                  !.last = res("nil", store.at[a]),
                                                  !.ops = @ + 1]
  /\ UNCHANGED <<managerVars, cfg, args, cli>>

CfgNext ==
  \/ \E n \in Names, port \in Ports : NewConfigObject(n, port)
  \/ \E id \in ObjSlots, n \in Names, port \in Ports : EditConfigObject(id, n, port)
  \/ \E id \in ObjSlots, dirOk, writeOk \in BOOLEAN : CfgSaveConfig(id, dirOk, writeOk)
  \/ \E n \in Names : CfgGetConfig(n)
  \/ CfgListConfigs
  \/ \E n \in Names, rmOk \in BOOLEAN : CfgDeleteConfig(n, rmOk)
  \/ \E n \in Names, writeOk \in BOOLEAN : CfgSetActiveConfig(n, writeOk)
  \/ \E readOk \in BOOLEAN : CfgGetActiveConfig(readOk)

SpecConfig == CfgInit /\ [][CfgNext]_vars

\* ---- the configuration a Tunnel is launched with ----
\* Manager.Start resolves the configuration and puts the pointer GetConfig
\* returned into the new Tunnel: held[n] is the object Tunnel.Config of the
\* tunnel of name n points to (0: no tunnel was started), launched[n] the fields
\* that object had when the tunnel was started (history).
\* cfg, err := configManager.GetConfig(tunnelName); Tunnel{Config: cfg}
HeldObject(n) == store.at[n]

StartResolveConfig(n) ==
  /\ Exists(n)
  /\ store.held[n] = 0
  /\ store' = [store EXCEPT !.held[n] = HeldObject(n),
                             !.launched[n] = <<Fields(store.objs[store.at[n]])>>]
  /\ UNCHANGED <<managerVars, cfg, args, cli>>

SnapNext ==
  \/ \E n \in Names, port \in Ports : NewConfigObject(n, port)
  \/ \E id \in ObjSlots, n \in Names, port \in Ports : EditConfigObject(id, n, port)
  \/ \E id \in ObjSlots, dirOk, writeOk \in BOOLEAN : CfgSaveConfig(id, dirOk, writeOk)
  \/ \E n \in Names : CfgGetConfig(n)
  \/ \E n \in Names : StartResolveConfig(n)

SpecSnapshot == CfgInit /\ [][SnapNext]_vars

\* ======================= properties =======================

Finished(c, o) == pc[c] = "done" /\ op[c] = o
\* caller c takes the step that leaves position p
Leaves(c, p) == pc[c] = p /\ pc'[c] # p
\* the process of record id runs and no Stop has cancelled the record
LiveRec(id) == proc[id] = "alive" /\ ~heap[id].cancelled
\* record id has been stopped and removed by a completed Stop
Removed(id) == heap[id].cancelled /\ heap[id].pid # 0 /\ ~TLocked(id)
RegistryFrame == tunnels' = tunnels /\ heap' = heap /\ proc' = proc /\ mon' = mon

\* ---- C1 ----
\* C1 as stated: after Start(name) returned success, with the entry it registered
\* still in place and GetStatus able to run, GetStatus reports Running, a non-zero
\* startTime and a positive pid.
C1_AsClaimed ==
  \A c \in Callers :
    (Finished(c, "Start") /\ ret[c] = "ok" /\ tunnels[arg[c]] = ref[c] /\ RLockFree)
      => /\ Projection(arg[c]).status = StatusRunning
         /\ Projection(arg[c]).startTime # 0
         /\ Projection(arg[c]).pid > 0

\* C1 (amended): after Start(name) returned success, with the entry it registered
\* still in place, GetStatus reports a non-zero startTime and a positive pid, and
\* status Running as long as the spawned process has not ended.
C1_StartThenStatus ==
  \A c \in Callers :
    (Finished(c, "Start") /\ ret[c] = "ok" /\ tunnels[arg[c]] = ref[c] /\ RLockFree)
      => /\ proc[ref[c]] = "alive" => Projection(arg[c]).status = StatusRunning
         /\ Projection(arg[c]).startTime # 0
         /\ Projection(arg[c]).pid > 0

C1_Witness ==
  \E c \in Callers :
    /\ Finished(c, "Start") /\ ret[c] = "ok" /\ tunnels[arg[c]] = ref[c] /\ RLockFree
    /\ proc[ref[c]] = "alive"
    /\ Projection(arg[c]).status = StatusRunning

\* ---- C2 ----
\* C2: a Start whose check finds the name registered in status Running returns
\* already-active, allocates and spawns nothing, and changes neither the registry
\* nor any record.
C2_StartOnRunning ==
  [][\A c \in Callers :
       (/\ Leaves(c, "start_check")
        /\ tunnels[arg[c]] # 0
        /\ heap[tunnels[arg[c]]].status = StatusRunning)
         => /\ ret'[c] = "already_active"
            /\ pc'[c] = "done"
            /\ RegistryFrame]_vars

C2_Witness ==
  \E c \in Callers :
    /\ Finished(c, "Start") /\ ret[c] = "already_active"
    /\ tunnels[arg[c]] # 0
    /\ heap[tunnels[arg[c]]].status = StatusRunning

\* ---- C3 ----
\* C3: when two Start calls for one name overlap, neither fails on the spawn or
\* the configuration, and every process they spawned keeps running unstopped,
\* then exactly one returned success, the other returned already-active, and the
\* registry entry of the name is the winner's record with the winner's process.
C3_OverlappingStarts ==
  \A c, d \in Callers :
    (/\ c # d
     /\ Finished(c, "Start") /\ Finished(d, "Start")
     /\ arg[c] = arg[d]
     /\ d \in conc[c]
     /\ ret[c] = "ok" /\ LiveRec(ref[c])
     /\ ret[d] \notin {"failed_to_start", "config_not_found"}
     /\ ref[d] # 0 => LiveRec(ref[d]))
      => /\ ret[d] = "already_active"
         /\ tunnels[arg[c]] = ref[c]
         /\ heap[ref[c]].pid > 0
         /\ heap[ref[c]].status = StatusRunning

C3_Witness ==
  \E c, d \in Callers :
    /\ c # d
    /\ Finished(c, "Start") /\ Finished(d, "Start")
    /\ arg[c] = arg[d]
    /\ d \in conc[c]
    /\ ret[c] = "ok" /\ LiveRec(ref[c])
    /\ ret[d] = "already_active"

\* ---- C4 ----
\* what a step changes for name n: its registry entry, a record of that name, the
\* process or the monitor of such a record, or a new record of that name
Touches(n) ==
  \/ tunnels'[n] # tunnels[n]
  \/ \E id \in Ids :
       /\ heap[id].name = n
       /\ heap'[id] # heap[id] \/ proc'[id] # proc[id] \/ mon'[id] # mon[id]
  \/ \E id \in (1..Len(heap')) \ Ids : heap'[id].name = n

\* two overlapping Starts of distinct names: a refusal is caused by a record of
\* the caller's own name, and two successes give two distinct records, each of
\* its own name with its own process id
IsolatedStarts ==
  \A c, d \in Callers :
    (/\ c # d
     /\ Finished(c, "Start") /\ Finished(d, "Start")
     /\ arg[c] # arg[d]
     /\ d \in conc[c])
      => /\ ret[c] = "already_active" =>
              \E id \in Ids : heap[id].name = arg[c] /\ heap[id].pid # 0
         /\ (ret[c] = "ok" /\ ret[d] = "ok") =>
              /\ ref[c] # ref[d]
              /\ heap[ref[c]].name = arg[c] /\ heap[ref[d]].name = arg[d]
              /\ heap[ref[c]].pid # heap[ref[d]].pid
              /\ heap[ref[c]].startTime # 0
         /\ ret[c] \in {"ok", "already_active", "config_not_found", "failed_to_start"}

\* C4: concurrent Starts of two distinct names do not interfere (a Start is
\* refused only because of a record of its own name; both successes yield two
\* separate records), and every step of the system (a Stop, a process exit, a
\* monitor step included) changes the entry and records of at most one name.
C4_DistinctNames ==
  [][/\ \A n, m \in Names : (n # m /\ Touches(n)) => ~Touches(m)
     /\ IsolatedStarts']_vars

C4_Witness ==
  \E c, d \in Callers :
    /\ c # d
    /\ Finished(c, "Start") /\ Finished(d, "Start")
    /\ arg[c] # arg[d]
    /\ d \in conc[c]
    /\ ret[c] = "ok" /\ ret[d] = "ok"
    /\ tunnels[arg[c]] = ref[c] /\ tunnels[arg[d]] = ref[d]
    /\ proc[ref[c]] # "alive" /\ heap[ref[d]].status = StatusRunning

\* ---- C5 ----
\* C5 as stated, in its final-result form: when the process of a registered
\* record that no Stop has cancelled has ended by itself, however it ended, and
\* the monitor has finished, the record is still registered and is in status
\* Error with a cause.
C5_AsClaimed ==
  \A id \in Ids :
    (mon[id] = "done" /\ ~heap[id].cancelled /\ tunnels[heap[id].name] = id)
      => heap[id].status = StatusError /\ heap[id].error # "none"

\* ---- C6 ----
\* C6: a record that a completed Stop has removed stays removed and Stopped
\* whatever the monitor, a health check or the process do afterwards; a name
\* enters the registry only by the registering step of a Start; and GetStatus of
\* an absent name reports Stopped.
C6_NoResurrection ==
  [][/\ \A id \in Ids :
          Removed(id) => /\ Removed(id)'
                         /\ heap'[id].status = StatusStopped
                         /\ tunnels'[heap[id].name] # id
     /\ \A n \in Names :
          (tunnels[n] = 0 /\ tunnels'[n] # 0)
            => \E c \in Callers : Leaves(c, "start_register") /\ arg[c] = n
                                  /\ tunnels'[n] = ref[c]
     /\ \A n \in Names : tunnels'[n] = 0 => Projection(n)'.status = StatusStopped]_vars

\* the process had ended by itself before the Stop, and the monitor ran after it
C6_Witness ==
  \E id \in Ids :
    /\ Removed(id)
    /\ proc[id] = "exitErr"
    /\ mon[id] = "done"
    /\ tunnels[heap[id].name] = 0

\* ---- C7 ----
\* C7: a Stop that finds the name registered in status Running or Error cancels
\* the context and goes on to the kill; whatever the kill does, Stop then returns
\* success with the record Stopped and the name absent, so that GetStatus
\* reports Stopped.
C7_StopSucceeds ==
  [][\A c \in Callers :
       /\ (/\ Leaves(c, "stop_find") /\ op[c] = "Stop"
           /\ tunnels[arg[c]] # 0
           /\ heap[tunnels[arg[c]]].status \in {StatusRunning, StatusError})
            => /\ pc'[c] = "stop_kill"
               /\ heap'[tunnels[arg[c]]].cancelled
       /\ (Leaves(c, "stop_kill") /\ op[c] = "Stop")
            => /\ ret'[c] = "ok" /\ pc'[c] = "done"
               /\ tunnels'[arg[c]] = 0
               /\ heap'[ref[c]].status = StatusStopped
               /\ Projection(arg[c])'.status = StatusStopped]_vars

\* Stop returned success although the kill left the process running
C7_Witness ==
  \E c \in Callers : \E id \in Ids :
    /\ Finished(c, "Stop") /\ ret[c] = "ok"
    /\ heap[id].name = arg[c] /\ Removed(id)
    /\ proc[id] = "alive"
    /\ tunnels[arg[c]] = 0

\* ---- C8 ----
\* C8: a Stop that finds no entry for its name returns not-found and changes
\* neither the registry nor any record, process or monitor.
C8_StopUnknown ==
  [][\A c \in Callers :
       (Leaves(c, "stop_find") /\ op[c] = "Stop" /\ tunnels[arg[c]] = 0)
         => /\ ret'[c] = "not_found" /\ pc'[c] = "done"
            /\ RegistryFrame]_vars

C8_Witness ==
  \E c \in Callers : \E m \in Names :
    /\ Finished(c, "Stop") /\ ret[c] = "not_found"
    /\ tunnels[arg[c]] = 0
    /\ m # arg[c] /\ tunnels[m] # 0 /\ heap[tunnels[m]].status = StatusRunning

\* ---- C9 ----
\* C9: a Stop that finds the registered record already Stopped or Stopping
\* returns already-stopped, cancels and kills nothing, and changes neither the
\* registry nor any record.
C9_StopOnStopped ==
  [][\A c \in Callers :
       (/\ Leaves(c, "stop_find") /\ op[c] = "Stop"
        /\ tunnels[arg[c]] # 0
        /\ heap[tunnels[arg[c]]].status \in {StatusStopped, StatusStopping})
         => /\ ret'[c] = "already_stopped" /\ pc'[c] = "done"
            /\ RegistryFrame]_vars

C9_Witness ==
  \E c \in Callers :
    /\ Finished(c, "Stop") /\ ret[c] = "already_stopped"
    /\ tunnels[arg[c]] # 0
    /\ heap[tunnels[arg[c]]].status = StatusStopped
    /\ ~heap[tunnels[arg[c]]].cancelled

\* ---- C10 ----
\* process ids the name of c's call had when the call began
PriorPids(c) ==
  {heap[id].pid : id \in {i \in 1..pre[c] : heap[i].name = arg[c] /\ heap[i].pid # 0}}

\* C10 as stated: when a Restart of a name that was Running returns, the name is
\* registered in status Running with a process id the name never had before.
C10_AsClaimed ==
  [][\A c \in Callers :
       (pc[c] # "done" /\ pc'[c] = "done" /\ op[c] = "Restart" /\ pre[c] > 0)
         => /\ tunnels'[arg[c]] # 0
            /\ heap'[tunnels'[arg[c]]].status = StatusRunning
            /\ heap'[tunnels'[arg[c]]].pid \notin PriorPids(c)]_vars

\* C10 (amended): when a Restart of a name that was Running returns success, the
\* name is registered with the record this Restart created, whose process id is
\* positive and differs from every process id the name had before the Restart;
\* its status is Running as long as the new process has not ended.
C10_RestartSucceeded ==
  [][\A c \in Callers :
       (/\ pc[c] # "done" /\ pc'[c] = "done" /\ op[c] = "Restart" /\ pre[c] > 0
        /\ ret'[c] = "ok")
         => /\ tunnels'[arg[c]] = ref[c]
            /\ ref[c] > pre[c]
            /\ heap'[ref[c]].pid > 0
            /\ heap'[ref[c]].pid \notin PriorPids(c)
            /\ proc'[ref[c]] = "alive" => heap'[ref[c]].status = StatusRunning]_vars

\* a Restart that returned success while the other caller stopped the same name
C10_Witness ==
  \E c, d \in Callers :
    /\ c # d
    /\ Finished(c, "Restart") /\ ret[c] = "ok" /\ pre[c] > 0
    /\ tunnels[arg[c]] = ref[c]
    /\ heap[ref[c]].status = StatusRunning
    /\ Finished(d, "Stop") /\ arg[d] = arg[c] /\ ret[d] = "ok"

\* ---- C11 ----
\* caller c takes a GetStatus step (or a step that cannot be told from one)
GetStatusStep(c) ==
  /\ pc[c] = "done" /\ pc'[c] = "done"
  /\ op'[c] = "GetStatus"
  /\ calls' = calls + 1
  /\ \A d \in Callers \ {c} : pc'[d] = pc[d] /\ op'[d] = op[d] /\ arg'[d] = arg[d]
  /\ configs' = configs

\* C11: GetStatus returns no error and changes neither the registry nor any
\* record, process or monitor; for a name with no entry it returns that name with
\* status Stopped, zero startTime, zero pid and no error cause.
C11_GetStatusReadOnly ==
  [][\A c \in Callers : \A n \in Names :
       (GetStatusStep(c) /\ arg'[c] = n)
         => /\ ret'[c] = "ok"
            /\ RegistryFrame
            /\ tunnels[n] = 0 =>
                 Projection(n)' =
                   [name |-> n, status |-> StatusStopped, startTime |-> 0,
                    lastHealthCheck |-> 0, uptime |-> 0, pid |-> 0, error |-> "none"]]_vars

\* GetStatus of a name whose entry a Stop has removed, another name being registered
C11_Witness ==
  \E c \in Callers : \E id \in Ids :
    /\ Finished(c, "GetStatus") /\ ret[c] = "ok"
    /\ tunnels[arg[c]] = 0
    /\ heap[id].name = arg[c] /\ Removed(id) /\ heap[id].startTime # 0

\* ---- C12 ----
\* C12 as stated: a Start whose name has no stored configuration returns
\* config-not-found, allocates and spawns nothing, starts no monitor and changes
\* neither the registry nor any record.
C12_AsClaimed ==
  [][\A c \in Callers :
       (Leaves(c, "start_check") /\ arg[c] \notin configs)
         => /\ ret'[c] = "config_not_found" /\ pc'[c] = "done"
            /\ RegistryFrame]_vars

\* C12 (amended): a Start whose name has no stored configuration and is not
\* registered in status Running or Starting returns config-not-found; whether
\* registered so or not, it allocates and spawns nothing, starts no monitor and
\* changes neither the registry nor any record.
C12_StartNoConfig ==
  [][\A c \in Callers :
       (Leaves(c, "start_check") /\ arg[c] \notin configs)
         => /\ pc'[c] = "done"
            /\ RegistryFrame
            /\ ret'[c] \in {"config_not_found", "already_active"}
            /\ ret'[c] = "already_active"
                 <=> /\ tunnels[arg[c]] # 0
                     /\ heap[tunnels[arg[c]]].status \in {StatusRunning, StatusStarting}]_vars

\* a Start refused for want of a configuration while the other name is registered
C12_Witness ==
  \E c \in Callers : \E m \in Names :
    /\ Finished(c, "Start") /\ ret[c] = "config_not_found"
    /\ arg[c] \notin configs
    /\ m # arg[c] /\ tunnels[m] # 0

\* ---- C13 ----
\* C13: when the spawn of a Start fails, Start returns the error at that step,
\* registers nothing, starts no monitor and no process; the record it had
\* allocated is in status Error with the cause and is never registered afterwards.
C13_SpawnFailure ==
  [][/\ \A c \in Callers :
          (Leaves(c, "start_spawn") /\ proc'[ref[c]] # "alive")
            => /\ ret'[c] = "failed_to_start" /\ pc'[c] = "done"
               /\ tunnels' = tunnels /\ proc' = proc /\ mon' = mon
               /\ \A id \in Ids \ {ref[c]} : heap'[id] = heap[id]
               /\ heap'[ref[c]].status = StatusError
               /\ heap'[ref[c]].error = "failed_to_start"
     /\ \A id \in Ids :
          (heap[id].error = "failed_to_start")
            => /\ heap'[id] = heap[id]
               /\ mon'[id] = "none" /\ proc'[id] = "none"
               /\ \A n \in Names : tunnels'[n] # id]_vars

\* a failed spawn for a name that keeps the Error record of an earlier process
C13_Witness ==
  \E c \in Callers :
    /\ Finished(c, "Start") /\ ret[c] = "failed_to_start"
    /\ tunnels[arg[c]] \notin {0, ref[c]}
    /\ heap[tunnels[arg[c]]].status = StatusError
    /\ mon[ref[c]] = "none"

\* ---- C14 ----
\* C14: a HealthCheck whose lookup finds no entry returns not-found, and one that
\* finds its record in a status other than Running returns not-running; neither
\* changes the registry or any field of any record.
C14_HealthCheckRefusals ==
  [][\A c \in Callers :
       /\ (Leaves(c, "hc_lookup") /\ tunnels[arg[c]] = 0)
            => /\ ret'[c] = "not_found" /\ pc'[c] = "done"
               /\ RegistryFrame
       /\ (Leaves(c, "hc_check") /\ heap[ref[c]].status # StatusRunning)
            => /\ ret'[c] = "not_running" /\ pc'[c] = "done"
               /\ RegistryFrame]_vars

\* one HealthCheck refused for a record in status Error whose process has ended,
\* another for a name that is not registered
C14_Witness ==
  \E c, d \in Callers : \E id \in Ids :
    /\ Finished(c, "HealthCheck") /\ ret[c] = "not_running"
    /\ tunnels[arg[c]] = id /\ heap[id].status = StatusError /\ proc[id] = "exitErr"
    /\ Finished(d, "HealthCheck") /\ ret[d] = "not_found" /\ tunnels[arg[d]] = 0

\* ---- C15 ----
\* C15 as stated: a HealthCheck that finds its record Running sets Error with a
\* cause and returns the failure when the process has ended, and records the
\* time, leaves Running and returns success when the process is alive.
C15_AsClaimed ==
  [][\A c \in Callers :
       (Leaves(c, "hc_check") /\ heap[ref[c]].status = StatusRunning)
         => IF proc[ref[c]] = "alive"
              THEN /\ ret'[c] = "ok"
                   /\ heap'[ref[c]] = [heap[ref[c]] EXCEPT !.lastHealthCheck = now]
              ELSE /\ ret'[c] \notin {"ok", "none"}
                   /\ heap'[ref[c]].status = StatusError
                   /\ heap'[ref[c]].error # "none"]_vars

\* ---- C16 ----
\* how many elements of sequence a are equal to x
Count(a, x) == Cardinality({i \in 1..Len(a) : a[i] = x})

\* the options that come first, in the order of the grammar
FixedOptions(c) ==
  <<"-N", "-T",
    "-o", "ServerAliveInterval=" \o ToString(c.KeepAliveInterval),
    "-o", "ServerAliveCountMax=" \o ToString(c.KeepAliveCountMax),
    "-o", "StrictHostKeyChecking=no",
    "-o", "UserKnownHostsFile=/dev/null",
    "-o", "ExitOnForwardFailure=yes",
    "-o", "ConnectTimeout=" \o ToString(c.ConnectTimeout)>>

\* C16: the argument list is the fixed options, then Compression=yes once iff
\* compression is on, then Ciphers=<ciphers> once iff ciphers is not empty, then
\* -i <key>, -p <port>, -R <reversePort>:localhost:22, then -D <socksPort> or
\* nothing, and last <user>@<host>.
C16_ArgumentOrder ==
  args # <<>> =>
    LET k1 == IF cfg.Compression THEN 2 ELSE 0
        k2 == IF cfg.Ciphers # "" THEN 2 ELSE 0
        b == 14 + k1 + k2
    IN /\ SubSeq(args, 1, 14) = FixedOptions(cfg)
       /\ Count(args, "Compression=yes") = k1 \div 2
       /\ cfg.Compression => args[15] = "-o" /\ args[16] = "Compression=yes"
       /\ Count(args, "Ciphers=" \o cfg.Ciphers) = k2 \div 2
       /\ cfg.Ciphers # "" => /\ args[14 + k1 + 1] = "-o"
                              /\ args[14 + k1 + 2] = "Ciphers=" \o cfg.Ciphers
       /\ SubSeq(args, b + 1, b + 6) =
            <<"-i", cfg.PrivateKeyPath, "-p", ToString(cfg.Port),
              "-R", ToString(cfg.ReversePort) \o ":localhost:22">>
       /\ \/ Len(args) = b + 7
          \/ /\ Len(args) = b + 9
             /\ args[b + 7] = "-D" /\ args[b + 8] = ToString(cfg.SOCKSPort)
       /\ args[Len(args)] = cfg.User \o "@" \o cfg.IP

C16_Witness ==
  /\ args # <<>>
  /\ cfg.Compression /\ cfg.Ciphers = "aes128-ctr"
  /\ cfg.ReversePort = 2222 /\ cfg.SOCKSPort = 1080
  /\ Len(args) = 27

\* ---- C17 ----
\* -D <socksPort> stands exactly once, right after the -R pair and right before
\* the destination
HasSOCKSFlag ==
  /\ Count(args, "-D") = 1
  /\ Len(args) >= 5
  /\ args[Len(args) - 2] = "-D"
  /\ args[Len(args) - 1] = ToString(cfg.SOCKSPort)
  /\ args[Len(args) - 4] = "-R"

\* C17 as stated: the argument list has -D <socksPort> (once, after -R, before
\* the destination) if and only if socksPort is not 0.
C17_AsClaimed ==
  args # <<>> =>
    /\ HasSOCKSFlag <=> cfg.SOCKSPort # 0
    /\ cfg.SOCKSPort = 0 => Count(args, "-D") = 0

\* C17 (amended): the argument list has -D <socksPort> (once, after -R, before
\* the destination) if and only if socksPort is greater than 0, and no -D at all
\* otherwise.
C17_SOCKSFlag ==
  args # <<>> =>
    /\ HasSOCKSFlag <=> cfg.SOCKSPort > 0
    /\ cfg.SOCKSPort <= 0 => Count(args, "-D") = 0

C17_Witness ==
  /\ args # <<>>
  /\ cfg.SOCKSPort = 1080
  /\ HasSOCKSFlag

\* ---- C18 ----
\* the names for which the command recorded a failure
FailedNames == {e[1] : e \in cli.errors}

\* C18: when a start-all or stop-all has returned, it has called Start or Stop
\* once for every configured name; the names it reports as failed, each with the
\* cause its call returned, are exactly those its Manager did not start (for
\* stop: did not stop); and it returns success exactly when there is none.
C18_BatchCollectsFailures ==
  (cli.phase = "returned" /\ cli.all /\ cli.cmd \in {"start", "stop"})
    => /\ {cli.tried[i] : i \in 1..Len(cli.tried)} = cli.listed
       /\ Len(cli.tried) = Cardinality(cli.listed)
       /\ FailedNames = {n \in cli.listed : ~(cli.cmd = "start" /\ tunnels[n] # 0)}
       /\ \A e \in cli.errors :
            e[2] \in {"failed_to_start", "config_not_found", "already_active",
                      "not_found", "already_stopped"}
       /\ cli.out = "ok" <=> FailedNames = {}
       /\ cli.out \in {"ok", "error"}

\* a start-all whose first name failed and whose second name was started
C18_Witness ==
  /\ cli.phase = "returned" /\ cli.all /\ cli.cmd = "start"
  /\ Len(cli.tried) = 2
  /\ cli.tried[1] \in FailedNames
  /\ tunnels[cli.tried[2]] # 0
  /\ cli.out = "error"

\* ---- C19 ----
\* C19 as stated: once the command start X has succeeded, with the ssh process
\* of X running, a status X shows X as running, and a stop X returns success
\* and leaves no ssh process of X running.
C19_AsClaimed ==
  \A X \in Names :
    (cli.phase = "returned" /\ ~cli.all /\ cli.listed = {X} /\ X \in cli.started)
      => /\ (cli.cmd = "status" /\ \E id \in Ids : heap[id].name = X /\ proc[id] = "alive")
              => cli.shown = StatusRunning
         /\ cli.cmd = "stop"
              => /\ cli.out = "ok"
                 /\ \A id \in Ids : heap[id].name = X => proc[id] # "alive"

\* ---- C20 ----
\* the step is a call of operation o that the store answered
StoreCall(o) == store'.ops = store.ops + 1 /\ store'.last.op = o

\* C20: a SaveConfig that succeeds leaves the fields of the object as they were
\* and makes GetConfig of its name return that object; from then on the name
\* keeps pointing to it until a SaveConfig or DeleteConfig of that name
\* succeeds; GetConfig of a stored name succeeds and returns the object stored
\* under it; and as long as the caller has not written to the object, its name,
\* server address and port, reverse port and key path are those it was saved with.
C20_SaveThenGet ==
  [][/\ \A id \in ObjIds :
          (StoreCall("SaveConfig") /\ store'.last.val = id /\ store'.last.err = "nil")
            => /\ store'.at[store.objs[id].TunnelName] = id
               /\ Fields(store'.objs[id]) = Fields(store.objs[id])
     /\ \A n \in Names :
          (/\ store.at[n] # 0
           /\ ~(/\ (StoreCall("SaveConfig") \/ StoreCall("DeleteConfig"))
                 /\ store'.last.name = n /\ store'.last.err = "nil"))
            => store'.at[n] = store.at[n]
     /\ \A n \in Names :
          (StoreCall("GetConfig") /\ store'.last.name = n /\ store.at[n] # 0)
            => /\ store'.last.err = "nil"
               /\ store'.last.val = store.at[n]
               /\ store'.objs = store.objs
     /\ \A n \in Names :
          (store'.at[n] # 0 /\ ~store'.touched[n])
            => store'.saved[n] = <<Fields(store'.objs[store'.at[n]])>>]_vars

\* GetConfig returns the object saved under t1 after another name was saved too
C20_Witness ==
  /\ store.last.op = "GetConfig" /\ store.last.name = "t1" /\ store.last.err = "nil"
  /\ store.last.val = store.at["t1"]
  /\ store.at["t2"] \notin {0, store.at["t1"]}
  /\ ~store.touched["t1"]
  /\ store.objs[store.at["t1"]].TunnelName = "t1"
  /\ store.objs[store.at["t1"]].UpdatedAt # 0

\* ---- C21 ----
\* the step is a call of operation o on name n that returned no error
StoreDid(o, n) == StoreCall(o) /\ store'.last.name = n /\ store'.last.err = "nil"

\* the elements of list q
Elems(q) == {q[i] : i \in 1..Len(q)}

\* C21: the store starts with no name; a SaveConfig that succeeds adds the name
\* of its object and nothing else, a DeleteConfig that succeeds takes its name
\* away and nothing else, and no other step changes the names; ListConfigs
\* returns exactly these names, each once, and changes nothing.
C21_ListConfigs ==
  [][/\ store.ops = 0 => Keys = {}
     /\ \A n \in Names : StoreDid("SaveConfig", n) => Keys' = Keys \cup {n}
     /\ \A n \in Names : StoreDid("DeleteConfig", n) => Keys' = Keys \ {n}
     /\ (\A n \in Names : ~StoreDid("SaveConfig", n) /\ ~StoreDid("DeleteConfig", n))
          => Keys' = Keys
     /\ StoreCall("ListConfigs")
          => /\ store'.last.err = "nil"
             /\ Elems(store'.last.names) = Keys
             /\ Len(store'.last.names) = Cardinality(Keys)
             /\ store'.at = store.at /\ store'.objs = store.objs
             /\ store'.files = store.files]_vars

\* ListConfigs returns both names after one object was saved under each of them
C21_Witness ==
  /\ store.last.op = "ListConfigs"
  /\ store.last.names = <<"t2", "t1">>
  /\ store.at["t1"] = store.at["t2"]

\* ---- C22 ----
\* C22: a DeleteConfig of a stored name that succeeds leaves the name without
\* key and without file, and every other name with the object and the file it
\* had; the objects themselves are not changed; and GetConfig of a name that has
\* no key returns not-found.
C22_DeleteConfig ==
  [][/\ \A n \in Names :
          (StoreDid("DeleteConfig", n) /\ store.at[n] # 0)
            => /\ store'.at[n] = 0
               /\ n \notin Keys'
               /\ store'.files[n] = NoFile
               /\ \A m \in Names \ {n} :
                    store'.at[m] = store.at[m] /\ store'.files[m] = store.files[m]
               /\ store'.objs = store.objs
     /\ \A n \in Names :
          (StoreCall("GetConfig") /\ store'.last.name = n /\ store.at[n] = 0)
            => store'.last.err = "not_found" /\ store'.last.val = 0]_vars

\* a name is deleted while the other name stays stored with its file
C22_Witness ==
  /\ store.last.op = "DeleteConfig" /\ store.last.name = "t1"
  /\ store.last.err = "nil"
  /\ store.at["t1"] = 0 /\ store.files["t1"] = NoFile
  /\ store.at["t2"] # 0
  /\ store.files["t2"] = <<Marshal(store.objs[store.at["t2"]])>>

\* ---- C23 ----
\* what the store holds: its keys, its objects, its files, the active name and
\* the marker file
StoreFrame ==
  /\ store'.at = store.at /\ store'.objs = store.objs /\ store'.files = store.files
  /\ store'.active = store.active /\ store'.marker = store.marker

\* C23: a GetConfig, DeleteConfig or SetActiveConfig of a name that has no key
\* returns not-found and changes neither the stored configurations nor the
\* active name nor the marker file.
C23_UnknownName ==
  [][\A n \in Names : \A o \in {"GetConfig", "DeleteConfig", "SetActiveConfig"} :
       (StoreCall(o) /\ store'.last.name = n /\ store.at[n] = 0)
         => /\ store'.last.err = "not_found"
            /\ store'.last.val = 0
            /\ StoreFrame]_vars

\* SetActiveConfig of a name that is not stored, while the other name is stored
\* and active
C23_Witness ==
  /\ store.last.op = "SetActiveConfig" /\ store.last.name = "t2"
  /\ store.last.err = "not_found"
  /\ store.at["t2"] = 0 /\ store.at["t1"] # 0
  /\ store.active = "t1" /\ store.marker = <<"t1">>

\* ---- C24 ----
\* C24: GetActiveConfig returns the no-active-configuration error, and changes
\* nothing, as long as no SetActiveConfig of a stored name has been called; a
\* SetActiveConfig of a stored name that succeeds leaves exactly that name in the
\* marker file, and the GetActiveConfig that follows it returns the object
\* stored under that name.
C24_ActiveConfig ==
  [][/\ (StoreCall("GetActiveConfig") /\ ~store.setCalled)
          => /\ store'.last.err = "no_active" /\ store'.last.val = 0
             /\ StoreFrame
     /\ \A n \in Names :
          (StoreDid("SetActiveConfig", n) /\ store.at[n] # 0)
            => /\ store'.marker = <<n>>
               /\ store'.at = store.at /\ store'.objs = store.objs
     /\ \A n \in Names :
          (/\ StoreCall("GetActiveConfig")
           /\ store.last.op = "SetActiveConfig" /\ store.last.name = n
           /\ store.last.err = "nil")
            => /\ store.at[n] # 0
               /\ store'.last.err = "nil"
               /\ store'.last.val = store.at[n]
               /\ store'.marker = <<n>>]_vars

\* GetActiveConfig returns the object stored under t2 once t2 was made active
C24_Witness ==
  /\ store.last.op = "GetActiveConfig" /\ store.last.err = "nil"
  /\ store.last.val = store.at["t2"]
  /\ store.marker = <<"t2">> /\ store.active = "t2"
  /\ store.objs[store.at["t2"]].TunnelName = "t2"

\* ---- C25 ----
\* caller c is at the spawn of a Start or at the kill of a Stop
Blocking(c) == pc[c] \in {"start_spawn", "stop_kill"}

C26_AsClaimed ==
  \A n \in Names : tunnels[n] # 0 => heap[tunnels[n]].status # StatusStopped

\* ---- C27 ----
\* the process handle of record t (t.Process) is set together with its process id
HasHandle(t) == t.pid # 0

C28_ErrorHasCause ==
  [][/\ \A id \in 1..Len(heap') :
          heap'[id].status = StatusError => heap'[id].error # "none"
     /\ \A id \in Ids :
          (heap[id].status # StatusError /\ heap'[id].status = StatusError)
            => heap'[id].error \in {"failed_to_start", "exited_unexpectedly",
                                    "process_not_found", "process_exited"}
     /\ \A c \in Callers :
          (Leaves(c, "start_spawn") /\ pc'[c] = "start_register")
            => /\ heap'[ref[c]].status = StatusRunning
               /\ heap'[ref[c]].error = "none"]_vars

\* one record was put into Error by a HealthCheck, the other by its monitor
C28_Witness ==
  \E i, j \in Ids :
    /\ heap[i].status = StatusError /\ heap[i].error = "process_exited"
    /\ heap[j].status = StatusError /\ heap[j].error = "exited_unexpectedly"

\* ---- C29 ----
\* record id goes to status Error in this step
ToError(id) == heap[id].status # StatusError /\ heap'[id].status = StatusError

\* C29 as stated: every step that takes a record to Error starts from Running.
C29_AsClaimed ==
  [][\A id \in Ids : ToError(id) => heap[id].status = StatusRunning]_vars

\* C29 (amended): a step that takes a record to Error starts from Running,
\* except the failed spawn of a Start, which takes the record it had just
\* created, registered under no name, from Starting to Error; no record goes to
\* Error from Stopping or Stopped.
C29_ErrorOnlyFromRunning ==
  [][\A id \in Ids :
       ToError(id)
         => \/ heap[id].status = StatusRunning
            \/ /\ heap[id].status = StatusStarting
               /\ \E c \in Callers : Leaves(c, "start_spawn") /\ ref[c] = id
               /\ heap'[id].error = "failed_to_start"
               /\ \A n \in Names : tunnels[n] # id /\ tunnels'[n] # id]_vars

\* a monitor took a Running record to Error, a failed spawn a Starting one
C29_Witness ==
  \E i, j \in Ids :
    /\ heap[i].status = StatusError /\ heap[i].error = "exited_unexpectedly"
    /\ heap[j].status = StatusError /\ heap[j].error = "failed_to_start"

\* ---- C30 ----
\* record id is registered in status Error
RegisteredError(id) == heap[id].status = StatusError /\ tunnels[heap[id].name] = id

\* the step is the one in which a Stop or a Restart of name n cancels the record
StopOf(n) ==
  \E c \in Callers : Leaves(c, "stop_find") /\ arg[c] = n /\ op[c] \in {"Stop", "Restart"}

\* C30 as stated: a registered record in status Error stays registered, in
\* status Error and with a cause, in every step that is not the Stop step of a
\* Stop or Restart of its name.
C30_AsClaimed ==
  [][\A id \in Ids :
       (RegisteredError(id) /\ ~StopOf(heap[id].name))
         => /\ RegisteredError(id)'
            /\ heap'[id].error # "none"]_vars

\* C30 (amended): a registered record in status Error stays in status Error,
\* with a cause, in every step that is not the Stop step of a Stop or Restart
\* of its name, and stays registered unless a Start of its name registers a new
\* record in its place; its cause changes only when the monitor overwrites
\* the one a HealthCheck had set.
C30_ErrorIsSticky ==
  [][\A id \in Ids :
       (RegisteredError(id) /\ ~StopOf(heap[id].name))
         => /\ heap'[id].status = StatusError
            /\ heap'[id].error # "none"
            /\ \/ tunnels'[heap[id].name] = id
               \/ \E c \in Callers :
                    /\ Leaves(c, "start_register") /\ arg[c] = heap[id].name
                    /\ op[c] \in {"Start", "Restart"}
                    /\ tunnels'[heap[id].name] = ref[c] /\ ref[c] # id
            /\ heap'[id].error # heap[id].error
                 => /\ mon[id] = "reaped" /\ mon'[id] = "deferred"
                    /\ heap[id].error = "process_exited"
                    /\ heap'[id].error = "exited_unexpectedly"]_vars

\* a Start has put a new record in the place of one that is in status Error
C30_Witness ==
  \E c \in Callers : \E id \in Ids :
    /\ Finished(c, "Start") /\ ret[c] = "ok"
    /\ heap[id].name = arg[c] /\ heap[id].status = StatusError /\ ~heap[id].cancelled
    /\ tunnels[arg[c]] = ref[c] /\ ref[c] # id

\* ---- C31 ----
\* the names that have an entry in the registry
Registered == {n \in Names : tunnels[n] # 0}

\* C31: a name enters the registry only in the registering step of a Start (or
\* of the Start step of a Restart) of that name, which then returns success, and
\* leaves it only in the removing step of a Stop (or of the Stop step of a
\* Restart) of that name, which succeeds; no other step, of GetStatus, List,
\* HealthCheck, the monitor or the process, changes the registered names.
C31_MembershipChanges ==
  [][/\ \A n \in Registered' \ Registered :
          \E c \in Callers :
            /\ Leaves(c, "start_register") /\ arg[c] = n
            /\ op[c] \in {"Start", "Restart"}
            /\ ret'[c] = "ok" /\ pc'[c] = "done"
     /\ \A n \in Registered \ Registered' :
          \E c \in Callers :
            /\ Leaves(c, "stop_kill") /\ arg[c] = n
            /\ op[c] = "Stop" => ret'[c] = "ok" /\ pc'[c] = "done"
            /\ op[c] = "Restart" => pc'[c] = "restart_sleep"
     /\ (\A c \in Callers : ~Leaves(c, "start_register") /\ ~Leaves(c, "stop_kill"))
          => tunnels' = tunnels]_vars

\* a HealthCheck and a monitor have put two records into Error, and both names
\* are still registered
C31_Witness ==
  /\ Registered = Names
  /\ \E c \in Callers : Finished(c, "HealthCheck") /\ ret[c] = "process_exited"
  /\ \E id \in Ids : mon[id] = "done" /\ heap[id].error = "exited_unexpectedly"

\* ---- C32 ----
\* C32 as stated: the projection a GetStatus returns has a non-zero uptime only
\* when its status is Running.
C32_AsClaimed ==
  [][\A c \in Callers : \A n \in Names :
       (GetStatusStep(c) /\ arg'[c] = n)
         => (Projection(n)'.uptime # 0 => Projection(n)'.status = StatusRunning)]_vars

\* ---- C33 ----
\* C33: a HealthCheck that had found its record in the registry and takes the
\* lock of the record after a Stop has removed it returns not-running and
\* changes no field of any record; more generally no step of a HealthCheck
\* changes a record that a Stop has removed.
C33_HealthCheckAfterStop ==
  [][\A c \in Callers :
       /\ (Leaves(c, "hc_check") /\ Removed(ref[c]))
            => /\ ret'[c] = "not_running" /\ pc'[c] = "done"
               /\ RegistryFrame
       /\ (pc[c] \in {"hc_lookup", "hc_check"} /\ pc'[c] # pc[c])
            => \A id \in Ids : Removed(id) => heap'[id] = heap[id]]_vars

\* the HealthCheck found the record, the Stop of the other caller then removed
\* it, and the HealthCheck returned not-running
C33_Witness ==
  \E c, d \in Callers : \E id \in Ids :
    /\ Finished(c, "HealthCheck") /\ ret[c] = "not_running"
    /\ Finished(d, "Stop") /\ ret[d] = "ok" /\ arg[d] = arg[c]
    /\ heap[id].name = arg[c] /\ Removed(id) /\ tunnels[arg[c]] = 0
    /\ heap[id].status = StatusStopped /\ heap[id].error = "none"
    /\ Len(heap) = 1

\* ---- C34 ----
\* C34 as stated: once a tunnel of name n has been started, the fields of the
\* configuration it holds are those it was started with, also after the stored
\* configuration of n was obtained from the store, changed and saved again.
C34_AsClaimed ==
  \A n \in Names :
    (/\ store.held[n] # 0
     /\ store.last.op = "SaveConfig" /\ store.last.err = "nil" /\ store.last.name = n
     /\ ~store.touched[n])
      => <<Fields(store.objs[store.held[n]])>> = store.launched[n]

\* ---- C35 ----
\* caller c returns from a Restart in this step
RestartReturns(c) == pc[c] # "done" /\ pc'[c] = "done" /\ op[c] = "Restart"

\* the name of c's call never had a record but the one c created itself, so the
\* Stop step of c's Restart found no entry
NoEarlierRecord(c) == \A id \in Ids \ {ref[c]} : heap[id].name # arg[c]

\* C35 as stated: a Restart of a name that has a stored configuration and no
\* registry entry returns success with the name registered in status Running.
C35_AsClaimed ==
  [][\A c \in Callers :
       (RestartReturns(c) /\ NoEarlierRecord(c) /\ arg[c] \in configs)
         => /\ ret'[c] = "ok"
            /\ tunnels'[arg[c]] # 0
            /\ heap'[tunnels'[arg[c]]].status = StatusRunning]_vars

\* C35 (amended): when the Stop step of a Restart finds no entry, or an entry
\* that is Stopped or Stopping, its error is dropped, nothing is changed and
\* the Restart goes on to its Start step; a Restart never returns an error of
\* its Stop step but what its Start step returns; and when that is success, the
\* name is registered with the record this Restart created, whose status is
\* Running as long as its process has not ended.
C35_RestartAsStart ==
  [][\A c \in Callers :
       /\ (/\ Leaves(c, "stop_find") /\ op[c] = "Restart"
           /\ \/ tunnels[arg[c]] = 0
              \/ heap[tunnels[arg[c]]].status \in {StatusStopped, StatusStopping})
            => /\ pc'[c] = "restart_sleep"
               /\ ret'[c] = "none"
               /\ RegistryFrame
       /\ RestartReturns(c)
            => /\ ret'[c] \in {"ok", "already_active", "config_not_found", "failed_to_start"}
               /\ ret'[c] = "ok"
                    => /\ tunnels'[arg[c]] = ref[c]
                       /\ heap'[ref[c]].pid > 0
                       /\ proc'[ref[c]] = "alive" => heap'[ref[c]].status = StatusRunning]_vars

\* a Restart of a name that never had a record has returned success
C35_Witness ==
  \E c \in Callers :
    /\ Finished(c, "Restart") /\ ret[c] = "ok"
    /\ ref[c] # 0 /\ NoEarlierRecord(c)
    /\ tunnels[arg[c]] = ref[c]
    /\ heap[ref[c]].status = StatusRunning

\* ---- C36 ----
\* List c holds the read lock and has a name left to visit, for which its
\* nested GetStatus must take the read lock again
ListInLoop(c) == pc[c] = "list_iter" /\ todo[c] # {}

\* C36 as stated, as the absence of the state that has no way out: no List is
\* inside its loop while a Start or Stop waits for the write lock. (In that
\* state the nested RLock of the List waits for the waiting writer and the
\* writer waits for the read lock the List holds: neither ever moves again.)
C36_AsClaimed == \A c \in Callers : ListInLoop(c) => MuWaiting = {}

\* ---- C37 ----
\* the records of name n whose process is running
LiveOf(n) == {id \in Ids : heap[id].name = n /\ proc[id] = "alive"}

\* no kill has failed: no record that a Stop has removed has its process running
KillsSucceeded == \A id \in Ids : Removed(id) => proc[id] # "alive"

\* C37: as long as no kill has failed, every name has at most one running
\* process; a Start that registers a record in the place of another one finds
\* the process of that one ended; and a Stop hands its name back only after
\* the kill.
C37_OneProcessPerName ==
  [][/\ KillsSucceeded' => \A n \in Names : Cardinality(LiveOf(n)') <= 1
     /\ \A c \in Callers :
          (Leaves(c, "start_register") /\ tunnels[arg[c]] # 0 /\ KillsSucceeded)
            => proc[tunnels[arg[c]]] \in {"exit0", "exitErr", "signaled"}
     /\ \A c \in Callers :
          (Leaves(c, "stop_kill") /\ KillsSucceeded')
            => proc'[ref[c]] # "alive" /\ tunnels'[arg[c]] = 0]_vars

\* a Start has replaced the Error record of a process that had ended, and the
\* new process of the name runs
C37_Witness ==
  \E i, j \in Ids :
    /\ i # j /\ heap[i].name = heap[j].name
    /\ proc[i] = "exitErr" /\ heap[i].status = StatusError /\ ~heap[i].cancelled
    /\ proc[j] = "alive" /\ tunnels[heap[j].name] = j
    /\ KillsSucceeded

\* ---- C38 ----
\* the monitor of record id takes a step
MonitorMoves(id) == mon[id] # "none" /\ mon'[id] # mon[id]

\* C38: a step of the monitor of a record changes no other record, no process
\* and no registry entry; in particular the monitor of a record that a Stop has
\* removed leaves the record registered later under the same name as it is.
C38_OldMonitor ==
  [][\A id \in Ids :
       MonitorMoves(id)
         => /\ \A j \in Ids \ {id} : heap'[j] = heap[j] /\ mon'[j] = mon[j]
            /\ heap'[id].pid = heap[id].pid
            /\ tunnels' = tunnels /\ proc' = proc]_vars

\* the monitor of the stopped instance has run to its end while the instance
\* started after it is registered and Running
C38_Witness ==
  \E i, j \in Ids :
    /\ i < j /\ heap[i].name = heap[j].name
    /\ Removed(i) /\ mon[i] = "done" /\ heap[i].status = StatusStopped
    /\ tunnels[heap[j].name] = j /\ heap[j].status = StatusRunning
    /\ heap[j].error = "none" /\ proc[j] = "alive" /\ mon[j] = "waiting"

\* ---- C39 ----
\* C39: the Stop step of a Restart that gets to its kill removes the record
\* for good: the record stays removed and Stopped, its process never runs
\* again, and the Restart goes on to its Start step; when that Start step
\* fails, the Restart returns its error (configuration missing, spawn failure
\* or already-active), and the step in which it returns puts no entry into the
\* registry: the record it may have created is not registered, and the
\* removed one is not put back.
C39_RestartNotAtomic ==
  [][/\ \A c \in Callers :
          (Leaves(c, "stop_kill") /\ op[c] = "Restart")
            => /\ pc'[c] = "restart_sleep"
               /\ tunnels'[arg[c]] = 0
               /\ \A id \in Ids :
                    id = ref[c] => Removed(id)' /\ heap'[id].status = StatusStopped
     /\ \A id \in Ids :
          Removed(id)
            => /\ Removed(id)' /\ heap'[id].status = StatusStopped
               /\ \A n \in Names : tunnels'[n] # id
               /\ proc[id] # "alive" => proc'[id] # "alive"
     /\ \A c \in Callers :
          (RestartReturns(c) /\ ret'[c] # "ok")
            => /\ ret'[c] \in {"config_not_found", "failed_to_start", "already_active"}
               /\ tunnels' = tunnels
               /\ ref[c] # 0 => \A n \in Names : tunnels'[n] # ref[c]]_vars

\* the Restart has stopped the running tunnel, its spawn has failed, and the
\* name is left without entry and without process
C39_Witness ==
  \E c \in Callers : \E i \in Ids :
    /\ Finished(c, "Restart") /\ ret[c] = "failed_to_start" /\ pre[c] > 0
    /\ \A d \in Callers \ {c} : op[d] \notin {"Stop", "Restart"}
    /\ heap[i].name = arg[c] /\ Removed(i) /\ proc[i] = "signaled"
    /\ tunnels[arg[c]] = 0
    /\ ref[c] # 0 /\ heap[ref[c]].status = StatusError

\* ---- C40 ----
\* C40 as stated: an active name that is set names a stored configuration, and
\* a GetActiveConfig made while an active name is set succeeds.
C40_AsClaimed ==
  /\ store.active # NoActive => store.active \in Keys
  /\ (store.last.op = "GetActiveConfig" /\ store.active # NoActive)
       => store.last.err = "nil"
====
